---- MODULE Spec2Model ----
(***************************************************************************)
(* Model of the natal-chart core of astro_chart.py: the sign classifier    *)
(* get_zodiac_sign, the house resolver get_house_for_planet, the aspect    *)
(* detector get_aspects and the driver get_full_chart.                     *)
(*                                                                         *)
(* Longitudes are Python floats in the source.  Here a longitude is an     *)
(* integer number of units, Scale units to the degree, so that fractions   *)
(* of a degree and of an arc-minute exist and truncation is observable.    *)
(***************************************************************************)
EXTENDS Integers, Sequences, FiniteSets, TLC

(***************************************************************************)
(* Bounds of the model.                                                    *)
(***************************************************************************)
\* Units per degree (120 = half arc-minutes).
Scale == 120
\* get_zodiac_sign is tried on every longitude from MarginDeg degrees below 0
\* to MarginDeg degrees above 360.
MarginDeg == 30
\* Cusp sets are drawn from GridN points spread evenly round the circle.
GridN == 14
\* Position mappings of up to MaxPlanets planets are given to get_aspects.
MaxPlanets == 3

Circle == 360 * Scale

\* A whole number of degrees, in units.
Deg(d) == d * Scale

Abs(x) == IF x < 0 THEN -x ELSE x

(***************************************************************************)
(* Constant tables of the program.                                         *)
(***************************************************************************)
ZODIAC_SIGNS ==
    << [sign |-> "Aries",       start |-> 0,   end |-> 30],
       [sign |-> "Taurus",      start |-> 30,  end |-> 60],
       [sign |-> "Gemini",      start |-> 60,  end |-> 90],
       [sign |-> "Cancer",      start |-> 90,  end |-> 120],
       [sign |-> "Leo",         start |-> 120, end |-> 150],
       [sign |-> "Virgo",       start |-> 150, end |-> 180],
       [sign |-> "Libra",       start |-> 180, end |-> 210],
       [sign |-> "Scorpio",     start |-> 210, end |-> 240],
       [sign |-> "Sagittarius", start |-> 240, end |-> 270],
       [sign |-> "Capricorn",   start |-> 270, end |-> 300],
       [sign |-> "Aquarius",    start |-> 300, end |-> 330],
       [sign |-> "Pisces",      start |-> 330, end |-> 360] >>

\* The planets of a chart, in the insertion order of the dictionary.
PLANETS ==
    << "Sun", "Moon", "Mercury", "Venus", "Mars", "Jupiter", "Saturn",
       "Uranus", "Neptune", "Pluto", "North Node" >>

\* The table with the orb of the Sextile widened to 30: its window then
\* runs into that of the Square.
ASPECTSWideSextile ==
    << [aspect |-> "Conjunction", exact |-> 0,   orb |-> 8],
       [aspect |-> "Opposition",  exact |-> 180, orb |-> 8],
       [aspect |-> "Trine",       exact |-> 120, orb |-> 6],
       [aspect |-> "Square",      exact |-> 90,  orb |-> 6],
       [aspect |-> "Sextile",     exact |-> 60,  orb |-> 30] >>

\* The aspect table, in the insertion order of the dictionary.
ASPECTS ==
    << [aspect |-> "Conjunction", exact |-> 0,   orb |-> 8],
       [aspect |-> "Opposition",  exact |-> 180, orb |-> 8],
       [aspect |-> "Trine",       exact |-> 120, orb |-> 6],
       [aspect |-> "Square",      exact |-> 90,  orb |-> 6],
       [aspect |-> "Sextile",     exact |-> 60,  orb |-> 4] >>

(***************************************************************************)
(* Sign classifier.                                                        *)
(***************************************************************************)
\* The value of the f-string f"{sign} {deg}°{minutes}′": its three
\* interpolated parts.  The sentinel string "Unknown" has one part.
FormatPosition(sign, deg, minutes) == << sign, deg, minutes >>

UnknownSign == [sign |-> "Unknown", formatted |-> << "Unknown" >>]

\* int((sign_degree - deg) * 60) for the fraction frac (in units) of a degree.
MinutesRounded(frac) == (frac * 60 + Scale \div 2) \div Scale
MinutesOf(frac) == (frac * 60) \div Scale

\* The body of the loop of get_zodiac_sign for a sector that matched.
SignPositionNoOffset(entry, deg_in) ==
    LET deg     == deg_in \div Scale
        minutes == MinutesOf(deg_in - deg * Scale)
    IN  [sign |-> entry.sign, formatted |-> FormatPosition(entry.sign, deg, minutes)]
SignPosition(entry, deg_in) ==
    LET sign_degree == deg_in - Deg(entry.start)
        deg         == sign_degree \div Scale
        minutes     == MinutesOf(sign_degree - deg * Scale)
    IN  [sign |-> entry.sign, formatted |-> FormatPosition(entry.sign, deg, minutes)]

\* The test of the loop of get_zodiac_sign: start <= degree < end.
SectorHoldsClosed(entry, deg_in) == Deg(entry.start) <= deg_in /\ deg_in <= Deg(entry.end)
SectorHolds(entry, deg_in) == Deg(entry.start) <= deg_in /\ deg_in < Deg(entry.end)

RECURSIVE ScanSigns(_, _)
ScanSigns(deg_in, k) ==
    IF k > Len(ZODIAC_SIGNS) THEN UnknownSign
    ELSE IF SectorHolds(ZODIAC_SIGNS[k], deg_in) THEN SignPosition(ZODIAC_SIGNS[k], deg_in)
    ELSE ScanSigns(deg_in, k + 1)

get_zodiac_sign(deg_in) == ScanSigns(deg_in, 1)

(***************************************************************************)
(* House resolver.                                                         *)
(***************************************************************************)
\* The sentinel "UNKNOWN" that get_house_for_planet returns when no house
\* matches.  A house result is a Python int or this string; the model
\* encodes the string as a number that is no house number.
UNKNOWN == 0

Houses == 1..12

\* house_degrees = [house_cusps[f"House {i}"]["degree"] for i in 1..12]
HouseDegrees(cusps) == [k \in Houses |-> cusps[k].degree]

\* next_i = (i + 1) % 12, for houses numbered from 1.
NextHouse(k) == (k % 12) + 1

\* The two tests of the loop body, for the span house_start..house_end:
\* the normal case, and the wrap-around case when house_end < house_start.
SpanMatchesNoWrap(house_start, house_end, p) ==
    house_start <= p /\ p < house_end
SpanMatches(house_start, house_end, p) ==
    \/ (house_start <= p /\ p < house_end)
    \/ (house_end < house_start /\ (p >= house_start \/ p < house_end))

HouseMatches(k, p, house_degrees) ==
    SpanMatches(house_degrees[k], house_degrees[NextHouse(k)], p)

\* What the function returns after the loop has found no house.
NoHouseDefaultsToFirst == UNKNOWN + 1
NoHouseFound == UNKNOWN

\* The same scan taken from House 12 down: the last matching house wins.
RECURSIVE ScanHousesDown(_, _, _)
ScanHousesDown(p, house_degrees, k) ==
    IF k > 12 THEN NoHouseFound
    ELSE IF HouseMatches(13 - k, p, house_degrees) THEN 13 - k
    ELSE ScanHousesDown(p, house_degrees, k + 1)

RECURSIVE ScanHouses(_, _, _)
ScanHouses(p, house_degrees, k) ==
    IF k > 12 THEN NoHouseFound
    ELSE IF HouseMatches(k, p, house_degrees) THEN k
    ELSE ScanHouses(p, house_degrees, k + 1)

get_house_for_planet(p, cusps) == ScanHouses(p, HouseDegrees(cusps), 1)

(***************************************************************************)
(* Aspect detector.                                                        *)
(*                                                                         *)
(* A position mapping is the sequence of its entries in iteration order;   *)
(* an entry carries its key in "planet".                                   *)
(***************************************************************************)
\* angle = abs(pos1 - pos2); if angle > 180: angle = 360 - angle
SeparationNoFold(pos1, pos2) == Abs(pos1 - pos2)
Separation(pos1, pos2) ==
    LET a == Abs(pos1 - pos2)
    IN  IF a > Deg(180) THEN Circle - a ELSE a

\* abs(angle - exact) <= orb
AspectHoldsStrict(a, entry) == Abs(a - Deg(entry.exact)) < Deg(entry.orb)
AspectHolds(a, entry) == Abs(a - Deg(entry.exact)) <= Deg(entry.orb)

\* The value of the f-string appended to aspect_list: its interpolated parts.
AspectRecord(planet1, house1, sign1, aspect, planet2, house2, sign2) ==
    << planet1, house1, sign1, aspect, planet2, house2, sign2 >>

\* The house named for an entry of the mapping in a record.
RecordHouseStored(entry, cusps) == entry.house
RecordHouse(entry, cusps) == get_house_for_planet(entry.degree, cusps)

\* The loop over ASPECTS.items() for one pair, from table row k on.
RECURSIVE ScanAspects(_, _, _, _, _)
ScanAspects(e1, e2, a, cusps, k) ==
    IF k > Len(ASPECTS) THEN << >>
    ELSE LET rest == ScanAspects(e1, e2, a, cusps, k + 1)
         IN  IF AspectHolds(a, ASPECTS[k])
             THEN << AspectRecord(e1.planet, RecordHouse(e1, cusps), e1.sign,
                                  ASPECTS[k].aspect,
                                  e2.planet, RecordHouse(e2, cusps), e2.sign) >> \o rest
             ELSE rest

\* The pair after (a, b) in "for i in range(n): for j in range(i + 1, n)",
\* numbered from 1; first component above n when the loops are over.
PairAfterFromSelf(a, b, n) ==
    IF b < n THEN << a, b + 1 >> ELSE << a + 1, a + 1 >>
PairAfter(a, b, n) ==
    IF b < n THEN << a, b + 1 >>
    ELSE IF a + 2 <= n THEN << a + 1, a + 2 >>
    ELSE << n + 1, n + 1 >>

(***************************************************************************)
(* Chart driver: get_timezone_offset, get_julian_day, get_house_cusps,     *)
(* get_planet_positions, get_full_chart.  The timezone finder, pytz and    *)
(* the ephemeris are outside the program: their answers are inputs.        *)
(***************************************************************************)
\* tf.timezone_at(...) found no timezone: Python's None.
NoTimezone == "<None>"

\* if not timezone_str: raise ValueError(...)
TimezoneNeverMissing(timezone_str) == FALSE
TimezoneMissing(timezone_str) == timezone_str = NoTimezone \/ timezone_str = ""

\* tz.localize(dt, is_dst=None) raises for a local time that is ambiguous
\* or does not exist; otherwise the offset is found.
LocalizeError(local_time) ==
    IF local_time = "ambiguous" THEN "AmbiguousTimeError"
    ELSE IF local_time = "nonexistent" THEN "NonExistentTimeError"
    ELSE "none"

\* get_house_cusps: each of the 12 cusps of swe.houses with its sign.
get_house_cusps(cusp_degrees) ==
    [k \in Houses |->
        [degree    |-> cusp_degrees[k],
         sign      |-> get_zodiac_sign(cusp_degrees[k]).sign,
         formatted |-> get_zodiac_sign(cusp_degrees[k]).formatted]]

\* The entry get_planet_positions stores for a planet at longitude pos.
PlanetEntry(planet, pos, cusps) ==
    LET house == get_house_for_planet(pos, cusps)
    IN  [planet    |-> planet,
         sign      |-> get_zodiac_sign(pos).sign,
         degree    |-> pos,
         house     |-> house,
         formatted |-> get_zodiac_sign(pos).formatted \o << house >>]

\* The dictionary get_full_chart returns.
ChartOf(positions, cusps, aspects) ==
    [positions |-> [k \in 1..Len(positions) |->
                       << positions[k].planet, positions[k].formatted >>],
     cusps     |-> [k \in Houses |-> cusps[k].formatted],
     aspects   |-> aspects]

(***************************************************************************)
(* The copy of the core in new_program.py.  Its tables and functions are   *)
(* translated from that file, apart from the ones of astro_chart.py above. *)
(***************************************************************************)
NP_ZODIAC_SIGNS ==
    << [sign |-> "Aries",       start |-> 0,   end |-> 30],
       [sign |-> "Taurus",      start |-> 30,  end |-> 60],
       [sign |-> "Gemini",      start |-> 60,  end |-> 90],
       [sign |-> "Cancer",      start |-> 90,  end |-> 120],
       [sign |-> "Leo",         start |-> 120, end |-> 150],
       [sign |-> "Virgo",       start |-> 150, end |-> 180],
       [sign |-> "Libra",       start |-> 180, end |-> 210],
       [sign |-> "Scorpio",     start |-> 210, end |-> 240],
       [sign |-> "Sagittarius", start |-> 240, end |-> 270],
       [sign |-> "Capricorn",   start |-> 270, end |-> 300],
       [sign |-> "Aquarius",    start |-> 300, end |-> 330],
       [sign |-> "Pisces",      start |-> 330, end |-> 360] >>

NP_ASPECTS ==
    << [aspect |-> "Conjunction", exact |-> 0,   orb |-> 8],
       [aspect |-> "Opposition",  exact |-> 180, orb |-> 8],
       [aspect |-> "Trine",       exact |-> 120, orb |-> 6],
       [aspect |-> "Square",      exact |-> 90,  orb |-> 6],
       [aspect |-> "Sextile",     exact |-> 60,  orb |-> 4] >>

\* get_zodiac_sign of new_program.py.
RECURSIVE NpScanSigns(_, _)
NpScanSigns(deg_in, k) ==
    IF k > Len(NP_ZODIAC_SIGNS) THEN [sign |-> "Unknown", formatted |-> << "Unknown" >>]
    ELSE LET entry == NP_ZODIAC_SIGNS[k]
         IN  IF Deg(entry.start) <= deg_in /\ deg_in < Deg(entry.end)
             THEN LET sign_degree == deg_in - Deg(entry.start)
                      deg         == sign_degree \div Scale
                      minutes     == ((sign_degree - deg * Scale) * 60) \div Scale
                  IN  [sign      |-> entry.sign,
                       formatted |-> FormatPosition(entry.sign, deg, minutes)]
             ELSE NpScanSigns(deg_in, k + 1)

np_get_zodiac_sign(deg_in) == NpScanSigns(deg_in, 1)

\* The tests of the loop body of get_house_for_planet of new_program.py.
NpSpanMatchesStrictStart(house_start, house_end, p) ==
    \/ (house_start < p /\ p < house_end)
    \/ (house_end < house_start /\ (p >= house_start \/ p < house_end))
NpSpanMatches(house_start, house_end, p) ==
    \/ (house_start <= p /\ p < house_end)
    \/ (house_end < house_start /\ (p >= house_start \/ p < house_end))

RECURSIVE NpScanHouses(_, _, _)
NpScanHouses(p, house_degrees, k) ==
    IF k > 12 THEN UNKNOWN
    ELSE IF NpSpanMatches(house_degrees[k], house_degrees[(k % 12) + 1], p) THEN k
    ELSE NpScanHouses(p, house_degrees, k + 1)

np_get_house_for_planet(p, cusps) ==
    NpScanHouses(p, [k \in 1..12 |-> cusps[k].degree], 1)

\* f"{angle:.2f}": the angle in hundredths of a degree, rounded to the
\* nearest, a tie to the even one.
NpFormatAngle(a) ==
    LET q == (a * 100) \div Scale
        r == (a * 100) % Scale
    IN  IF 2 * r < Scale THEN q
        ELSE IF 2 * r > Scale THEN q + 1
        ELSE IF q % 2 = 0 THEN q ELSE q + 1

\* The records of one pair: the loop over ASPECTS.items() of new_program.py.
RECURSIVE NpScanAspects(_, _, _, _, _)
NpScanAspects(e1, e2, a, cusps, k) ==
    IF k > Len(NP_ASPECTS) THEN << >>
    ELSE LET rest == NpScanAspects(e1, e2, a, cusps, k + 1)
         IN  IF Abs(a - Deg(NP_ASPECTS[k].exact)) <= Deg(NP_ASPECTS[k].orb)
             THEN << << e1.planet, np_get_house_for_planet(e1.degree, cusps), e1.sign,
                        NP_ASPECTS[k].aspect,
                        e2.planet, np_get_house_for_planet(e2.degree, cusps), e2.sign,
                        NpFormatAngle(a) >> >> \o rest
             ELSE rest

\* The two loops of get_aspects of new_program.py from the pair (a, b) on.
RECURSIVE NpPairLoop(_, _, _, _)
NpPairLoop(positions, cusps, a, b) ==
    IF a > Len(positions) THEN << >>
    ELSE IF b > Len(positions) THEN NpPairLoop(positions, cusps, a + 1, a + 2)
    ELSE LET pos1 == positions[a].degree
             pos2 == positions[b].degree
             diff == Abs(pos1 - pos2)
             ang  == IF diff > Deg(180) THEN Circle - diff ELSE diff
         IN  NpScanAspects(positions[a], positions[b], ang, cusps, 1)
                 \o NpPairLoop(positions, cusps, a, b + 1)

np_get_aspects(positions, cusps) == NpPairLoop(positions, cusps, 1, 2)

(***************************************************************************)
(* program.py: get_zodiac_sign, which returns the formatted position       *)
(* alone, and assign_planets_to_houses, which reads it back.               *)
(***************************************************************************)
PG_ZODIAC_SIGNS ==
    << [sign |-> "Aries",       start |-> 0,   end |-> 30],
       [sign |-> "Taurus",      start |-> 30,  end |-> 60],
       [sign |-> "Gemini",      start |-> 60,  end |-> 90],
       [sign |-> "Cancer",      start |-> 90,  end |-> 120],
       [sign |-> "Leo",         start |-> 120, end |-> 150],
       [sign |-> "Virgo",       start |-> 150, end |-> 180],
       [sign |-> "Libra",       start |-> 180, end |-> 210],
       [sign |-> "Scorpio",     start |-> 210, end |-> 240],
       [sign |-> "Sagittarius", start |-> 240, end |-> 270],
       [sign |-> "Capricorn",   start |-> 270, end |-> 300],
       [sign |-> "Aquarius",    start |-> 300, end |-> 330],
       [sign |-> "Pisces",      start |-> 330, end |-> 360] >>

\* get_zodiac_sign of program.py: f"{sign} {deg}°{minutes}′", or "Unknown".
RECURSIVE PgScanSigns(_, _)
PgScanSigns(deg_in, k) ==
    IF k > Len(PG_ZODIAC_SIGNS) THEN << "Unknown" >>
    ELSE LET entry == PG_ZODIAC_SIGNS[k]
         IN  IF Deg(entry.start) <= deg_in /\ deg_in < Deg(entry.end)
             THEN LET sign_degree == deg_in - Deg(entry.start)
                      deg         == sign_degree \div Scale
                      minutes     == ((sign_degree - deg * Scale) * 60) \div Scale
                  IN  FormatPosition(entry.sign, deg, minutes)
             ELSE PgScanSigns(deg_in, k + 1)

pg_get_zodiac_sign(deg_in) == PgScanSigns(deg_in, 1)

\* house_degrees: the first 12 values of the dictionary, then the first
\* one plus 360.
PgHouseDegrees(cusp_values) ==
    SubSeq(cusp_values, 1, 12) \o << cusp_values[1] + Circle >>

\* sign = pos.split(" ")[0]
PgSignOf(pos) == pos[1]

\* planet_degree = float(pos.split(" ")[1].split("°")[0]): the text between
\* the space and the degree mark, the whole degrees; the minutes are not read.
PgPlanetDegree(pos) == Deg(pos[2])

\* sign_offset = {s: start for s, start, _ in ZODIAC_SIGNS}[sign]
PgSignOffset(sign) ==
    Deg(PG_ZODIAC_SIGNS[CHOOSE k \in 1..Len(PG_ZODIAC_SIGNS) :
                            PG_ZODIAC_SIGNS[k].sign = sign].start)

PgAbsoluteDegree(pos) == PgSignOffset(PgSignOf(pos)) + PgPlanetDegree(pos)

\* The loop "for i in range(12)" from house k on: the first house whose
\* test holds, as a one-element list, or the empty list when none does.
RECURSIVE PgFirstHouse(_, _, _)
PgFirstHouse(absolute_degree, house_degrees, k) ==
    IF k > 12 THEN << >>
    ELSE IF house_degrees[k] <= absolute_degree /\ absolute_degree < house_degrees[k + 1]
         THEN << k >>
    ELSE PgFirstHouse(absolute_degree, house_degrees, k + 1)

\* The loop over planet_positions.items() from entry n on: an entry of
\* planet_houses for each planet a house was found for.
RECURSIVE PgAssignLoop(_, _, _)
PgAssignLoop(positions, house_degrees, n) ==
    IF n > Len(positions) THEN << >>
    ELSE LET found == PgFirstHouse(PgAbsoluteDegree(positions[n].pos), house_degrees, 1)
             rest  == PgAssignLoop(positions, house_degrees, n + 1)
         IN  IF found = << >> THEN rest
             ELSE << [planet |-> positions[n].planet, house |-> found[1]] >> \o rest

assign_planets_to_houses(positions, cusp_values) ==
    PgAssignLoop(positions, PgHouseDegrees(cusp_values), 1)

(***************************************************************************)
(* State.                                                                  *)
(***************************************************************************)
VARIABLES
    pc,               \* position of the running call
    degree,           \* argument of get_zodiac_sign
    sign_result,      \* its return value
    planet_degree,    \* argument of get_house_for_planet
    house_cusps,      \* the cusp dictionary: house number -> entry with "degree"
    house_result,     \* return value of get_house_for_planet
    planet_positions, \* the position mapping, in iteration order
    aspect_list,      \* the list get_aspects builds and returns
    i, j,             \* loop indices of get_aspects, numbered from 1
    angle,            \* the separation of the pair visited last
    tz_lookup,        \* what the timezone finder answers for the location
    local_time,       \* how pytz finds the birth hour in that timezone
    sky,              \* what the ephemeris answers: cusps and longitudes
    error,            \* the exception get_full_chart ended with
    chart,            \* the dictionary get_full_chart returned
    np_sign_result,   \* return value of get_zodiac_sign of new_program.py
    np_house_result,  \* return value of get_house_for_planet of new_program.py
    np_aspect_list,   \* return value of get_aspects of new_program.py
    placements,       \* program.py: planet -> formatted position
    house_data,       \* program.py: the dictionary of get_house_cusps
    planet_houses     \* program.py: what assign_planets_to_houses returned

signVars   == << degree, sign_result >>
houseVars  == << planet_degree, house_result >>
aspectVars == << planet_positions, aspect_list, i, j, angle >>

envVars    == << tz_lookup, local_time, sky >>
chartVars  == << envVars, error, chart >>

npVars     == << np_sign_result, np_house_result, np_aspect_list >>
pgVars     == << placements, house_data, planet_houses >>
copyVars   == << npVars, pgVars >>

vars == << pc, signVars, houseVars, house_cusps, aspectVars, chartVars, copyVars >>

NoSign == [sign |-> "", formatted |-> << >>]
NoCusps == << >>
\* Neither a house number nor the sentinel: no call has returned yet.
NotReturned == UNKNOWN - 1

SignIdle == degree = 0 /\ sign_result = NoSign
HouseIdle == planet_degree = 0 /\ house_result = NotReturned
AspectsIdle ==
    planet_positions = << >> /\ aspect_list = << >> /\ i = 0 /\ j = 0 /\ angle = 0

NoSky == [cusps |-> << >>, lons |-> << >>]
NoChart == [positions |-> << >>, cusps |-> << >>, aspects |-> << >>]

NpIdle ==
    np_sign_result = NoSign /\ np_house_result = NotReturned /\ np_aspect_list = << >>
PgIdle ==
    placements = << >> /\ house_data = << >> /\ planet_houses = << >>
CopiesIdle == NpIdle /\ PgIdle

ChartIdle ==
    /\ tz_lookup = NoTimezone /\ local_time = "unique" /\ sky = NoSky
    /\ error = "none" /\ chart = NoChart

(***************************************************************************)
(* get_zodiac_sign applied to one longitude.                               *)
(***************************************************************************)
SignInputs == Deg(-MarginDeg) .. Deg(360 + MarginDeg)

InitSign ==
    /\ pc = "sign_call"
    /\ degree \in SignInputs
    /\ sign_result = NoSign
    /\ HouseIdle /\ house_cusps = NoCusps /\ AspectsIdle /\ ChartIdle
    /\ CopiesIdle

GetZodiacSign ==
    /\ pc = "sign_call"
    /\ sign_result' = get_zodiac_sign(degree)
    /\ pc' = "sign_done"
    /\ UNCHANGED << degree, houseVars, house_cusps, aspectVars, chartVars, copyVars >>

NextSign == GetZodiacSign

SpecSign == InitSign /\ [][NextSign]_vars

(***************************************************************************)
(* get_house_for_planet applied to one longitude and one cusp dictionary.  *)
(***************************************************************************)
\* A cusp dictionary as the tests build it: entries with "degree" alone.
CuspDict(degs) == [k \in Houses |-> [degree |-> degs[k]]]

\* The k-th smallest element of a set of numbers.
Nth(S, k) == CHOOSE x \in S : Cardinality({y \in S : y < x}) = k - 1

GridPoint(g) == (g * Circle) \div GridN

\* Twelve distinct grid points in increasing order, House 1 at the r-th.
RotatedCusps(S, r) ==
    [k \in Houses |-> GridPoint(Nth(S, ((r + k - 2) % 12) + 1))]

ValidCuspSets ==
    { RotatedCusps(S, r) :
        S \in { T \in SUBSET (0 .. GridN - 1) : Cardinality(T) = 12 },
        r \in Houses }

\* The cusps of test_get_house_for_planet: 10, 40, ..., 340.
TestCusps == [k \in Houses |-> Deg(10 + 30 * (k - 1))]

\* Cusp dictionaries a chart never has: every house at one of two values,
\* in any arrangement (the two constant ones included).
MalformedCuspSets == [Houses -> {Deg(100), Deg(200)}]

\* Longitudes on, just below and just above every cusp, the ends of the
\* circle, and two longitudes outside it.
PlanetProbes(degs) ==
    UNION { {degs[k] - 1, degs[k], degs[k] + 1} : k \in Houses }
        \cup {0, Circle - 1, Deg(-5), Deg(365)}

TestPlanets == { Deg(d) : d \in 0..359 }

InitHouse ==
    /\ pc = "house_call"
    /\ \/ \E degs \in ValidCuspSets \cup MalformedCuspSets :
            /\ house_cusps = CuspDict(degs)
            /\ planet_degree \in PlanetProbes(degs)
       \/ /\ house_cusps = CuspDict(TestCusps)
          /\ planet_degree \in TestPlanets
    /\ house_result = NotReturned
    /\ SignIdle /\ AspectsIdle /\ ChartIdle
    /\ CopiesIdle

GetHouseForPlanet ==
    /\ pc = "house_call"
    /\ house_result' = get_house_for_planet(planet_degree, house_cusps)
    /\ pc' = "house_done"
    /\ UNCHANGED << signVars, planet_degree, house_cusps, aspectVars, chartVars, copyVars >>

NextHouseCall == GetHouseForPlanet

SpecHouse == InitHouse /\ [][NextHouseCall]_vars

(***************************************************************************)
(* get_house_for_planet on cusp dictionaries of any shape: those above,    *)
(* the cusps of the tests with two houses exchanged, and cusps over three  *)
(* values in any arrangement of the first six houses.                      *)
(***************************************************************************)
Exchanged(degs, a, b) ==
    [k \in Houses |-> IF k = a THEN degs[b] ELSE IF k = b THEN degs[a] ELSE degs[k]]

ExchangedCuspSets ==
    { Exchanged(degs, a, b) :
        degs \in {TestCusps, [k \in Houses |-> IF k = 1 THEN Deg(5) ELSE Deg(30 * (k - 1))]},
        a \in Houses, b \in Houses }

ThreeValuedCuspSets ==
    { [k \in Houses |-> IF k <= 6 THEN f[k] ELSE Deg(200)] :
        f \in [1..6 -> {Deg(100), Deg(200), Deg(300)}] }

InitHouseAny ==
    /\ pc = "house_call"
    /\ \E degs \in MalformedCuspSets \cup ExchangedCuspSets \cup ThreeValuedCuspSets :
          /\ house_cusps = CuspDict(degs)
          /\ planet_degree \in PlanetProbes(degs)
    /\ house_result = NotReturned
    /\ SignIdle /\ AspectsIdle /\ ChartIdle
    /\ CopiesIdle

SpecHouseAny == (InitHouse \/ InitHouseAny) /\ [][NextHouseCall]_vars

(***************************************************************************)
(* get_aspects applied to one position mapping and one cusp dictionary.    *)
(***************************************************************************)
PlanetCount == Len(planet_positions)

\* aspect_list = []; planets = list(planet_positions.keys()); the loops
\* start at the first pair, or are over at once for fewer than two planets.
GetAspectsEnter ==
    /\ pc = "aspects_call"
    /\ aspect_list' = << >>
    /\ IF PlanetCount >= 2
       THEN i' = 1 /\ j' = 2 /\ pc' = "aspects_loop"
       ELSE i' = PlanetCount + 1 /\ j' = PlanetCount + 1 /\ pc' = "aspects_done"
    /\ UNCHANGED << signVars, houseVars, house_cusps, planet_positions, angle, chartVars, copyVars >>

\* One iteration of the inner loop: the pair (planets[i], planets[j]), its
\* separation, one record per aspect that holds; then the next pair, or the
\* return when there is none.
AspectsPair ==
    /\ pc = "aspects_loop"
    /\ LET e1   == planet_positions[i]
           e2   == planet_positions[j]
           a    == Separation(e1.degree, e2.degree)
           next == PairAfter(i, j, PlanetCount)
       IN  /\ angle' = a
           /\ aspect_list' = aspect_list \o ScanAspects(e1, e2, a, house_cusps, 1)
           /\ i' = next[1]
           /\ j' = next[2]
           /\ pc' = IF next[1] > PlanetCount THEN "aspects_done" ELSE "aspects_loop"
    /\ UNCHANGED << signVars, houseVars, house_cusps, planet_positions, chartVars, copyVars >>

\* An entry of a position mapping as get_planet_positions and the tests
\* build it.
Entry(planet, sign, deg_in, house) ==
    [planet |-> planet, sign |-> sign, degree |-> deg_in, house |-> house]

\* The mapping of test_get_aspects.
TestPositions ==
    << Entry("Sun", "Aries", Deg(0), 1), Entry("Moon", "Libra", Deg(180), 6),
       Entry("Mars", "Twins", Deg(120), 4), Entry("Venus", "Taurus", Deg(60), 2) >>

\* Two orders in which four planet names can be the keys of a mapping.
NameOrders ==
    { << "Sun", "Moon", "Mars", "Venus" >>, << "Venus", "Mars", "Moon", "Sun" >> }

\* Longitudes whose separations fall on, inside and outside the windows of
\* the table, on both sides of the 0/360 seam.
SmallLons == { Deg(3), Deg(87), Deg(99), Deg(183), Deg(358) }

\* The sign and house stored with a longitude: those of the classifier and
\* of the resolver under the cusps given, or ones that went stale.
StoredEntries(planet, deg_in, degs) ==
    { Entry(planet, get_zodiac_sign(deg_in).sign, deg_in,
            get_house_for_planet(deg_in, CuspDict(degs))),
      Entry(planet, "Twins", deg_in, 1) }

AspectCuspSets == { TestCusps, [k \in Houses |-> Deg(100)] }

\* Mappings of up to MaxPlanets planets over SmallLons.
InitSmallMapping ==
    \E n \in 0..MaxPlanets, names \in NameOrders, degs \in AspectCuspSets :
        /\ house_cusps = CuspDict(degs)
        /\ planet_positions \in
              { m \in [1..n -> UNION { StoredEntries(names[k], d, degs) :
                                          k \in 1..n, d \in SmallLons }] :
                    \A k \in 1..n : m[k].planet = names[k] }

\* Two planets, the first at one of four longitudes, the second anywhere on
\* the whole degrees and one unit to either side of them.
PairFirst == { Deg(0), Deg(3), Deg(200) + 1, Deg(358) }
PairSecond == { Deg(d) + e : d \in 0..359, e \in {0, 1, Scale - 1} }

InitPairMapping ==
    \E a \in PairFirst, b \in PairSecond :
        /\ house_cusps = CuspDict(TestCusps)
        /\ planet_positions =
              << Entry("Sun", get_zodiac_sign(a).sign, a, 1),
                 Entry("Moon", get_zodiac_sign(b).sign, b, 1) >>

InitTestMapping ==
    /\ house_cusps = CuspDict(TestCusps)
    /\ planet_positions = TestPositions

InitAspects ==
    /\ pc = "aspects_call"
    /\ InitSmallMapping \/ InitPairMapping \/ InitTestMapping
    /\ aspect_list = << >> /\ i = 0 /\ j = 0 /\ angle = 0
    /\ SignIdle /\ HouseIdle /\ ChartIdle
    /\ CopiesIdle

NextAspects == GetAspectsEnter \/ AspectsPair

SpecAspects == InitAspects /\ [][NextAspects]_vars

(***************************************************************************)
(* get_full_chart for one birth time and place.                            *)
(***************************************************************************)
\* The cusps of SAMPLE_HOUSE_CUSPS: 5, 30, 60, ..., 330.
SampleCusps == [k \in Houses |-> IF k = 1 THEN Deg(5) ELSE Deg(30 * (k - 1))]

\* A cusp set with the ascendant past mid-circle and uneven houses.
AscendantLateCusps == RotatedCusps(0 .. 11, 8)

SkyCusps == { TestCusps, SampleCusps, AscendantLateCusps }

\* Planet longitudes spread round the circle from a base with a stride.
SkyLons ==
    { [k \in 1..Len(PLANETS) |-> (base + (k - 1) * stride) % Circle] :
        base \in {Deg(0), Deg(123) + 7}, stride \in {Deg(30), Deg(47) + 1} }

InitChart ==
    /\ pc = "chart_call"
    /\ tz_lookup \in {NoTimezone, "Europe/Moscow"}
    /\ local_time \in {"unique", "ambiguous", "nonexistent"}
    /\ sky \in [cusps : SkyCusps, lons : SkyLons]
    /\ error = "none" /\ chart = NoChart
    /\ house_cusps = NoCusps
    /\ SignIdle /\ HouseIdle /\ AspectsIdle
    /\ CopiesIdle

\* jd_ut = get_julian_day(...): get_timezone_offset raises ValueError when
\* no timezone is found, localize raises for an ambiguous or missing hour;
\* otherwise the Julian day is computed and the chart goes on.
GetJulianDay ==
    /\ pc = "chart_call"
    /\ IF TimezoneMissing(tz_lookup)
       THEN error' = "ValueError" /\ pc' = "chart_raised"
       ELSE IF LocalizeError(local_time) # "none"
       THEN error' = LocalizeError(local_time) /\ pc' = "chart_raised"
       ELSE error' = error /\ pc' = "chart_positions"
    /\ UNCHANGED << signVars, houseVars, house_cusps, aspectVars, envVars, chart, copyVars >>

\* get_planet_positions, its first line: house_cusps = get_house_cusps(...)
GetPlanetPositionsCusps ==
    /\ pc = "chart_positions"
    /\ house_cusps' = get_house_cusps(sky.cusps)
    /\ pc' = "chart_planet"
    /\ UNCHANGED << signVars, houseVars, aspectVars, chartVars, copyVars >>

\* get_planet_positions, one iteration of its loop over PLANETS.
GetPlanetPositionsPlanet ==
    /\ pc = "chart_planet"
    /\ LET k == Len(planet_positions) + 1
       IN  /\ planet_positions' =
                 Append(planet_positions, PlanetEntry(PLANETS[k], sky.lons[k], house_cusps))
           /\ pc' = IF k = Len(PLANETS) THEN "chart_cusps" ELSE "chart_planet"
    /\ UNCHANGED << signVars, houseVars, house_cusps, aspect_list, i, j, angle, chartVars, copyVars >>

\* house_cusps = get_house_cusps(...) in get_full_chart; get_aspects is next.
GetHouseCusps ==
    /\ pc = "chart_cusps"
    /\ house_cusps' = get_house_cusps(sky.cusps)
    /\ pc' = "aspects_call"
    /\ UNCHANGED << signVars, houseVars, aspectVars, chartVars, copyVars >>

\* The return of get_full_chart, once get_aspects has returned.
ReturnChart ==
    /\ pc = "aspects_done"
    /\ sky # NoSky
    /\ chart' = ChartOf(planet_positions, house_cusps, aspect_list)
    /\ pc' = "chart_done"
    /\ UNCHANGED << signVars, houseVars, house_cusps, aspectVars, envVars, error, copyVars >>

NextChart ==
    \/ GetJulianDay
    \/ GetPlanetPositionsCusps
    \/ GetPlanetPositionsPlanet
    \/ GetHouseCusps
    \/ GetAspectsEnter
    \/ AspectsPair
    \/ ReturnChart

SpecChart == InitChart /\ [][NextChart]_vars

(***************************************************************************)
(* The functions of new_program.py applied to what those of astro_chart.py *)
(* were applied to.                                                        *)
(***************************************************************************)
NpGetZodiacSign ==
    /\ pc = "sign_done"
    /\ np_sign_result' = np_get_zodiac_sign(degree)
    /\ pc' = "np_sign_done"
    /\ UNCHANGED << signVars, houseVars, house_cusps, aspectVars, chartVars,
                    np_house_result, np_aspect_list, pgVars >>

NpGetHouseForPlanet ==
    /\ pc = "house_done"
    /\ np_house_result' = np_get_house_for_planet(planet_degree, house_cusps)
    /\ pc' = "np_house_done"
    /\ UNCHANGED << signVars, houseVars, house_cusps, aspectVars, chartVars,
                    np_sign_result, np_aspect_list, pgVars >>

NpGetAspects ==
    /\ pc = "aspects_done"
    /\ sky = NoSky
    /\ np_aspect_list' = np_get_aspects(planet_positions, house_cusps)
    /\ pc' = "np_aspects_done"
    /\ UNCHANGED << signVars, houseVars, house_cusps, aspectVars, chartVars,
                    np_sign_result, np_house_result, pgVars >>

InitCopies == InitSign \/ InitHouse \/ InitAspects

NextCopies ==
    \/ GetZodiacSign
    \/ GetHouseForPlanet
    \/ GetAspectsEnter
    \/ AspectsPair
    \/ NpGetZodiacSign
    \/ NpGetHouseForPlanet
    \/ NpGetAspects

SpecCopies == InitCopies /\ [][NextCopies]_vars

(***************************************************************************)
(* assign_planets_to_houses applied to one mapping of formatted positions  *)
(* and one dictionary of house cusps.                                      *)
(***************************************************************************)
\* The dictionary get_house_cusps of program.py builds: House 1..12, then
\* the Ascendant (the first cusp) and the Midheaven (the tenth).
HouseData(degs) ==
    [k \in 1..14 |-> IF k <= 12 THEN degs[k] ELSE IF k = 13 THEN degs[1] ELSE degs[10]]

Placement(planet, lon) == [planet |-> planet, pos |-> pg_get_zodiac_sign(lon)]

\* One planet on, just below or just above a cusp or at an end of the
\* circle, under any cusp set of the grid.
InitOnePlacement ==
    \E degs \in ValidCuspSets :
        /\ house_data = HouseData(degs)
        /\ \E lon \in { p \in PlanetProbes(degs) : 0 <= p /\ p < Circle } :
              placements = << Placement("Sun", lon) >>

\* Up to MaxPlanets planets under the cusps of the tests.
InitFewPlacements ==
    \E n \in 1..MaxPlanets, names \in NameOrders, degs \in {TestCusps, SampleCusps} :
        /\ house_data = HouseData(degs)
        /\ placements \in
              { m \in [1..n -> { Placement(names[k], lon) : k \in 1..n, lon \in SmallLons }] :
                    \A k \in 1..n : m[k].planet = names[k] }

InitAssign ==
    /\ pc = "assign_call"
    /\ InitOnePlacement \/ InitFewPlacements
    /\ planet_houses = << >>
    /\ SignIdle /\ HouseIdle /\ house_cusps = NoCusps /\ AspectsIdle /\ ChartIdle
    /\ NpIdle

AssignPlanetsToHouses ==
    /\ pc = "assign_call"
    /\ planet_houses' = assign_planets_to_houses(placements, house_data)
    /\ pc' = "assign_done"
    /\ UNCHANGED << signVars, houseVars, house_cusps, aspectVars, chartVars,
                    npVars, placements, house_data >>

NextAssign == AssignPlanetsToHouses

SpecAssign == InitAssign /\ [][NextAssign]_vars

(***************************************************************************)
(* The program: any of the four entry points.                              *)
(***************************************************************************)
Init == InitSign \/ InitHouse \/ InitAspects \/ InitChart

Next == GetZodiacSign \/ GetHouseForPlanet \/ NextChart

Spec == Init /\ [][Next]_vars

(***************************************************************************)
(* Properties of the sign classifier (checked under SpecSign).             *)
(***************************************************************************)
SignOrder ==
    << "Aries", "Taurus", "Gemini", "Cancer", "Leo", "Virgo", "Libra",
       "Scorpio", "Sagittarius", "Capricorn", "Aquarius", "Pisces" >>

InCircle(d) == 0 <= d /\ d < Circle

SignDone == pc = "sign_done"

\* C1: get_zodiac_sign returns a named sign exactly when 0 <= degree < 360,
\* namely the sign of sector floor(degree / 30) in the order Aries..Pisces;
\* outside [0,360) (no reduction modulo 360) it returns the sentinel pair
\* ("Unknown", "Unknown") as a value.
C1_SignTotality ==
    SignDone =>
        /\ (sign_result.sign # "Unknown") <=> InCircle(degree)
        /\ InCircle(degree) => sign_result.sign = SignOrder[(degree \div Deg(30)) + 1]
        /\ ~InCircle(degree) => sign_result = UnknownSign

\* The last longitude below 360 is classified as Pisces.
C1_Witness ==
    SignDone /\ degree = Circle - 1 /\ sign_result.sign = "Pisces"

\* C2: for 0 <= degree < 360 the formatted degree part is the floor of the
\* offset into the sector, in 0..29, and the minute part is the floor of the
\* remaining fraction times 60, in 0..59; an integer-valued degree d gives
\* d mod 30 and 0 minutes (10 -> Aries 10°0′, 120 -> Leo 0°0′).
C2_PositionTruncates ==
    (SignDone /\ InCircle(degree)) =>
        LET f      == sign_result.formatted
            offset == degree - Deg(30) * (degree \div Deg(30))
            rest   == offset - f[2] * Scale
        IN  /\ Len(f) = 3
            /\ f[1] = sign_result.sign
            /\ f[2] \in 0..29
            /\ f[3] \in 0..59
            /\ f[2] * Scale <= offset /\ offset < (f[2] + 1) * Scale
            /\ f[3] * Scale <= rest * 60 /\ rest * 60 < (f[3] + 1) * Scale
            /\ degree % Scale = 0 => (f[2] = (degree \div Scale) % 30 /\ f[3] = 0)
            /\ degree = Deg(10) => f = << "Aries", 10, 0 >>
            /\ degree = Deg(120) => f = << "Leo", 0, 0 >>

\* The last unit below 360 stays in Pisces at 29°59′.
C2_Witness ==
    /\ SignDone
    /\ degree = Circle - 1
    /\ sign_result.formatted = << "Pisces", 29, 59 >>

\* C3 as stated: get_zodiac_sign(359) is Pisces at 29°59′.
C3_Sign359Is2959 ==
    (SignDone /\ degree = Deg(359)) =>
        sign_result = [sign |-> "Pisces", formatted |-> << "Pisces", 29, 59 >>]

\* C3 amended: get_zodiac_sign(359) is Pisces with degree part 29 and
\* minute part 0.
C3_Sign359Is290 ==
    (SignDone /\ degree = Deg(359)) =>
        sign_result = [sign |-> "Pisces", formatted |-> << "Pisces", 29, 0 >>]

C3_Witness ==
    SignDone /\ degree = Deg(359) /\ sign_result.formatted[3] = 0

(***************************************************************************)
(* Properties of the house resolver (checked under SpecHouse).             *)
(***************************************************************************)
HouseDone == pc = "house_done"

CuspDegrees == HouseDegrees(house_cusps)

\* The houses whose span ends numerically below its start.
SeamHouses(degs) == { k \in Houses : degs[NextHouse(k)] < degs[k] }

\* Twelve distinct longitudes in [0,360) that increase circularly from
\* House 1: exactly one span crosses the 0/360 seam.
ValidCusps(degs) ==
    /\ \A k \in Houses : InCircle(degs[k])
    /\ \A k, m \in Houses : k # m => degs[k] # degs[m]
    /\ Cardinality(SeamHouses(degs)) = 1

\* p lies in the circular half-open span [from, to).
InCircularSpan(p, from, to) == (p - from) % Circle < (to - from) % Circle

MatchingHouses(p, degs) == { k \in Houses : HouseMatches(k, p, degs) }

MinCusp(degs) == Nth({ degs[k] : k \in Houses }, 1)
MaxCusp(degs) == Nth({ degs[k] : k \in Houses }, Cardinality({ degs[k] : k \in Houses }))

\* Exactly one house matches and it is the one returned, the house whose
\* circular span holds the longitude; the enumerated cases of the test.
HouseIsTheOneSpan(p, degs) ==
    /\ Cardinality(MatchingHouses(p, degs)) = 1
    /\ house_result \in MatchingHouses(p, degs)
    /\ \A k \in Houses :
          InCircularSpan(p, degs[k], degs[NextHouse(k)]) <=> k = house_result
    /\ degs = TestCusps =>
          /\ p \in {Deg(5), Deg(345)} => house_result = 12
          /\ \A k \in Houses : p = Deg(15 + 30 * (k - 1)) => house_result = k

\* C4 as stated: for every valid cusp set and longitude in [0,360) exactly
\* one house matches and is returned, the house whose circular span holds the
\* longitude, and a longitude numerically below the House 1 cusp or at or
\* above the House 12 cusp resolves to the seam-crossing house.
C4_BelowFirstCuspIsSeamHouse ==
    (HouseDone /\ ValidCusps(CuspDegrees) /\ InCircle(planet_degree)) =>
        /\ HouseIsTheOneSpan(planet_degree, CuspDegrees)
        /\ (planet_degree < CuspDegrees[1] \/ planet_degree >= CuspDegrees[12])
              => house_result \in SeamHouses(CuspDegrees)

\* C4 amended: the same, with the seam-crossing house taking the longitudes
\* numerically below the smallest cusp or at or above the largest cusp
\* (these are the House 1 and House 12 cusps when House 12 crosses the seam).
C4_HouseTotality ==
    (HouseDone /\ ValidCusps(CuspDegrees) /\ InCircle(planet_degree)) =>
        /\ HouseIsTheOneSpan(planet_degree, CuspDegrees)
        /\ (planet_degree < MinCusp(CuspDegrees) \/ planet_degree >= MaxCusp(CuspDegrees))
              => house_result \in SeamHouses(CuspDegrees)
        /\ SeamHouses(CuspDegrees) = {12} =>
              (MinCusp(CuspDegrees) = CuspDegrees[1] /\ MaxCusp(CuspDegrees) = CuspDegrees[12])

\* A longitude below every cusp, resolved to a seam-crossing house that is
\* not House 12.
C4_Witness ==
    /\ HouseDone
    /\ ValidCusps(CuspDegrees)
    /\ InCircle(planet_degree)
    /\ planet_degree < MinCusp(CuspDegrees)
    /\ house_result \in SeamHouses(CuspDegrees)
    /\ house_result # 12

\* C5: when no house span matches the longitude, get_house_for_planet
\* returns the sentinel "UNKNOWN", never house 1 or any number in 1..12.
C5_NoMatchIsUnknown ==
    (HouseDone /\ MatchingHouses(planet_degree, CuspDegrees) = {}) =>
        (house_result = UNKNOWN /\ house_result \notin Houses)

\* A cusp dictionary with no matching house, answered with the sentinel.
C5_Witness ==
    /\ HouseDone
    /\ MatchingHouses(planet_degree, CuspDegrees) = {}
    /\ house_result = UNKNOWN

(***************************************************************************)
(* Properties of the aspect detector (checked under SpecAspects).          *)
(***************************************************************************)
AspectsDone == pc = "aspects_done"

Min(x, y) == IF x <= y THEN x ELSE y

\* The minimal circular angle between two longitudes of [0,360).
CircularAngle(a, b) == Min(Abs(a - b), Circle - Abs(a - b))

\* sep lies in the window exact - orb .. exact + orb of table row k.
InWindow(sep, k) ==
    /\ Deg(ASPECTS[k].exact - ASPECTS[k].orb) <= sep
    /\ sep <= Deg(ASPECTS[k].exact + ASPECTS[k].orb)

\* The (i, j, table row) triples with i < j whose pair is in the row's
\* window, and their order: pair first, table row second.
MatchTriples ==
    { t \in (1..PlanetCount) \X (1..PlanetCount) \X (1..Len(ASPECTS)) :
        /\ t[1] < t[2]
        /\ InWindow(CircularAngle(planet_positions[t[1]].degree,
                                  planet_positions[t[2]].degree), t[3]) }

TripleBefore(t, u) ==
    \/ t[1] < u[1]
    \/ (t[1] = u[1] /\ t[2] < u[2])
    \/ (t[1] = u[1] /\ t[2] = u[2] /\ t[3] < u[3])

\* The q-th triple in that order.
TripleAt(q) ==
    CHOOSE t \in MatchTriples :
        Cardinality({ u \in MatchTriples : TripleBefore(u, t) }) = q - 1

\* The entry of the mapping stored under a planet name.
EntryOf(planet) ==
    planet_positions[CHOOSE k \in 1..PlanetCount : planet_positions[k].planet = planet]

\* C6: the returned list is the sequence of all (pair, aspect) matches, the
\* pairs (planets[i], planets[j]) with i < j taken with i ascending then j
\* ascending, the aspects of a pair in table order; one record per match, no
\* pair skipped, doubled or reversed, no planet paired with itself.
C6_AspectListIsPairScan ==
    AspectsDone =>
        /\ Len(aspect_list) = Cardinality(MatchTriples)
        /\ \A q \in 1..Len(aspect_list) :
              LET t == TripleAt(q)
                  r == aspect_list[q]
              IN  /\ r[1] = planet_positions[t[1]].planet
                  /\ r[5] = planet_positions[t[2]].planet
                  /\ r[4] = ASPECTS[t[3]].aspect
                  /\ r[1] # r[5]

\* Three planets of which two pairs match and one does not.
C6_Witness ==
    /\ AspectsDone
    /\ PlanetCount = 3
    /\ Len(aspect_list) = 2
    /\ aspect_list[1][4] # aspect_list[2][4]

\* The pair whose iteration has just run: the one PairAfter leaves for (i, j).
VisitedLast ==
    { pr \in (1..PlanetCount) \X (1..PlanetCount) :
        /\ pr[1] < pr[2]
        /\ pc \in {"aspects_loop", "aspects_done"}
        /\ PairAfter(pr[1], pr[2], PlanetCount) = << i, j >> }

\* C7: the separation computed for a pair of longitudes of [0,360) is the
\* minimal circular angle min(|a-b|, 360-|a-b|), lies in [0,180] and is the
\* same for (a,b) and (b,a); 358 and 3 are 5 apart.
C7_SeparationIsMinimalAngle ==
    \A pr \in VisitedLast :
        LET a == planet_positions[pr[1]].degree
            b == planet_positions[pr[2]].degree
        IN  (InCircle(a) /\ InCircle(b)) =>
              /\ angle = CircularAngle(a, b)
              /\ 0 <= angle /\ angle <= Deg(180)
              /\ angle = Separation(b, a)
              /\ ({a, b} = {Deg(358), Deg(3)} => angle = Deg(5))

\* 358 and 3, on opposite sides of the seam, found 5 degrees apart.
C7_Witness ==
    /\ AspectsDone
    /\ PlanetCount = 2
    /\ planet_positions[1].degree = Deg(358)
    /\ planet_positions[2].degree = Deg(3)
    /\ angle = Deg(5)

\* The list holds a record of the aspect of table row k for the pair (a, b).
HasRecord(a, b, k) ==
    \E q \in 1..Len(aspect_list) :
        /\ aspect_list[q][1] = planet_positions[a].planet
        /\ aspect_list[q][5] = planet_positions[b].planet
        /\ aspect_list[q][4] = ASPECTS[k].aspect

Square == CHOOSE k \in 1..Len(ASPECTS) : ASPECTS[k].aspect = "Square"

\* C8: a pair is matched to an aspect of the table if and only if its
\* separation is within exact - orb .. exact + orb, both ends included; for
\* Square 90/6, 84 and 96 match and anything below 84 or above 96 does not.
C8_ToleranceInclusive ==
    AspectsDone =>
        \A a, b \in 1..PlanetCount :
            a < b =>
                LET sep == CircularAngle(planet_positions[a].degree,
                                         planet_positions[b].degree)
                IN  /\ \A k \in 1..Len(ASPECTS) : HasRecord(a, b, k) <=> InWindow(sep, k)
                    /\ sep \in {Deg(84), Deg(96)} => HasRecord(a, b, Square)
                    /\ sep \in {Deg(83), Deg(84) - 1, Deg(96) + 1, Deg(97)}
                          => ~HasRecord(a, b, Square)

\* A pair exactly 96 degrees apart, reported as a Square.
C8_Witness ==
    /\ AspectsDone
    /\ PlanetCount = 2
    /\ angle = Deg(96)
    /\ Len(aspect_list) = 1
    /\ aspect_list[1][4] = "Square"

\* The six records of test_get_aspects.
TestAspects ==
    << << "Sun", 12, "Aries", "Opposition", "Moon", 6, "Libra" >>,
       << "Sun", 12, "Aries", "Trine", "Mars", 4, "Twins" >>,
       << "Sun", 12, "Aries", "Sextile", "Venus", 2, "Taurus" >>,
       << "Moon", 6, "Libra", "Sextile", "Mars", 4, "Twins" >>,
       << "Moon", 6, "Libra", "Trine", "Venus", 2, "Taurus" >>,
       << "Mars", 4, "Twins", "Sextile", "Venus", 2, "Taurus" >> >>

\* C9: every record names, for each of its two planets, the house that
\* get_house_for_planet returns for the planet's longitude under the cusps
\* given to get_aspects (not the stored "house") and the stored sign; the
\* mapping Sun=0, Moon=180, Mars=120, Venus=60 over cusps 10,40,...,340
\* gives exactly the six records with houses Sun 12, Moon 6, Mars 4, Venus 2.
C9_RecordsNameResolvedHouses ==
    AspectsDone =>
        /\ \A q \in 1..Len(aspect_list) :
              LET r  == aspect_list[q]
                  e1 == EntryOf(r[1])
                  e2 == EntryOf(r[5])
              IN  /\ r[2] = get_house_for_planet(e1.degree, house_cusps)
                  /\ r[6] = get_house_for_planet(e2.degree, house_cusps)
                  /\ r[3] = e1.sign
                  /\ r[7] = e2.sign
        /\ (planet_positions = TestPositions /\ house_cusps = CuspDict(TestCusps))
              => aspect_list = TestAspects

\* The test mapping done: the Sun, stored in house 1, is reported in 12.
C9_Witness ==
    /\ AspectsDone
    /\ planet_positions = TestPositions
    /\ Len(aspect_list) = 6
    /\ aspect_list[1][2] = 12
    /\ EntryOf("Sun").house = 1

(***************************************************************************)
(* Properties of the chart driver (checked under SpecChart).               *)
(***************************************************************************)
\* No cusp fetched, no planet classified, no aspect looked for, no chart.
CoreUntouched ==
    /\ house_cusps = NoCusps
    /\ planet_positions = << >>
    /\ aspect_list = << >>
    /\ i = 0 /\ j = 0
    /\ chart = NoChart

\* C10: when the timezone of the location cannot be resolved, get_full_chart
\* fails with ValueError before any core logic runs: no house cusp is
\* fetched, no planet classified, no aspect detected, no chart returned, and
\* nothing runs afterwards.
C10_NoTimezoneAborts ==
    (tz_lookup = NoTimezone /\ pc # "chart_call") =>
        /\ pc = "chart_raised"
        /\ error = "ValueError"
        /\ CoreUntouched
        /\ ~ENABLED NextChart

\* The call has failed for want of a timezone.
C10_Witness ==
    /\ pc = "chart_raised"
    /\ tz_lookup = NoTimezone
    /\ error = "ValueError"
    /\ sky.cusps = TestCusps

(***************************************************************************)
(* Properties of the two copies of the core (checked under SpecCopies).    *)
(***************************************************************************)
\* C11: get_zodiac_sign and get_house_for_planet of astro_chart.py and of
\* new_program.py return the same result for every longitude and cusp set,
\* and the two get_aspects return lists of the same length whose k-th
\* records name the same planets, houses, signs and aspect, the record of
\* new_program.py having the angle appended and nothing else.
C11_CopiesAgree ==
    /\ pc = "np_sign_done" => np_sign_result = sign_result
    /\ pc = "np_house_done" => np_house_result = house_result
    /\ pc = "np_aspects_done" =>
          /\ Len(np_aspect_list) = Len(aspect_list)
          /\ \A q \in 1..Len(aspect_list) :
                /\ Len(np_aspect_list[q]) = Len(aspect_list[q]) + 1
                /\ SubSeq(np_aspect_list[q], 1, Len(aspect_list[q])) = aspect_list[q]
                /\ np_aspect_list[q][8] =
                      NpFormatAngle(CircularAngle(EntryOf(aspect_list[q][1]).degree,
                                                  EntryOf(aspect_list[q][5]).degree))

\* Both copies have answered for the six records of the test mapping.
C11_Witness ==
    /\ pc = "np_aspects_done"
    /\ planet_positions = TestPositions
    /\ Len(np_aspect_list) = 6
    /\ np_aspect_list[1] = << "Sun", 12, "Aries", "Opposition", "Moon", 6, "Libra", 18000 >>

(***************************************************************************)
(* Properties of assign_planets_to_houses (checked under SpecAssign).      *)
(***************************************************************************)
AssignDone == pc = "assign_done"

AssignedPlanets == { planet_houses[q].planet : q \in 1..Len(planet_houses) }

\* Sun at Aries 3°0′ under the cusps 10, 40, ..., 340: no entry for the Sun.
C12_SunBelowFirstCuspDropped ==
    /\ AssignDone
    /\ [k \in Houses |-> house_data[k]] = TestCusps
    /\ placements = << Placement("Sun", Deg(3)) >>
    /\ planet_houses = << >>

\* C12: for cusps in [0,360) that increase circularly from House 1 and
\* planets in named signs, the result of assign_planets_to_houses has an
\* entry for every planet of the input, those numerically below the House 1
\* cusp included.
C12_EveryPlanetAssigned ==
    (AssignDone /\ ValidCusps([k \in Houses |-> house_data[k]])) =>
        \A k \in 1..Len(placements) :
            placements[k].pos # << "Unknown" >> =>
                placements[k].planet \in AssignedPlanets

(***************************************************************************)
(* The house resolver on any cusp dictionary (checked under SpecHouseAny). *)
(***************************************************************************)
AllCuspsEqual(degs) == \A k \in Houses : degs[k] = degs[1]

\* C13: get_house_for_planet returns the sentinel "UNKNOWN" if and only if
\* all 12 cusps are equal; when two cusps differ, sorted or not, with any
\* number of seam crossings, and for any longitude, at least one house
\* matches and the result is the lowest-numbered matching house.
C13_UnknownIffAllCuspsEqual ==
    HouseDone =>
        /\ house_result = UNKNOWN <=> AllCuspsEqual(CuspDegrees)
        /\ ~AllCuspsEqual(CuspDegrees) =>
              /\ MatchingHouses(planet_degree, CuspDegrees) # {}
              /\ house_result \in MatchingHouses(planet_degree, CuspDegrees)
              /\ \A k \in MatchingHouses(planet_degree, CuspDegrees) : house_result <= k

\* Unsorted cusps with several seam crossings and several matching houses,
\* answered with the lowest of them, which is not House 1.
C13_Witness ==
    /\ HouseDone
    /\ ~AllCuspsEqual(CuspDegrees)
    /\ Cardinality(SeamHouses(CuspDegrees)) >= 2
    /\ Cardinality(MatchingHouses(planet_degree, CuspDegrees)) >= 2
    /\ house_result \in MatchingHouses(planet_degree, CuspDegrees)
    /\ house_result > 1

(***************************************************************************)
(* The aspect table's windows and the size of the list.                    *)
(***************************************************************************)
\* The rows of the table whose test abs(angle - exact) <= orb holds for a.
RowsHolding(a) == { k \in 1..Len(ASPECTS) : AspectHolds(a, ASPECTS[k]) }

\* The records of the list naming the planets p and q, in either order.
RecordsOfPair(p, q) ==
    { n \in 1..Len(aspect_list) :
        {aspect_list[n][1], aspect_list[n][5]} = {p, q} }

\* C14: the tolerance windows of the table (Conjunction 0/8, Opposition
\* 180/8, Trine 120/6, Square 90/6, Sextile 60/4) are pairwise disjoint, so
\* get_aspects appends at most one record per unordered pair of planets and
\* the list is never longer than P*(P-1)/2 for P planets.
C14_OneRecordPerPair ==
    /\ \A k \in 1..Len(ASPECTS) : \A l \in 1..Len(ASPECTS) :
          k # l =>
             \/ ASPECTS[k].exact + ASPECTS[k].orb < ASPECTS[l].exact - ASPECTS[l].orb
             \/ ASPECTS[l].exact + ASPECTS[l].orb < ASPECTS[k].exact - ASPECTS[k].orb
    /\ pc \in {"aspects_loop", "aspects_done"} =>
          /\ Cardinality(RowsHolding(angle)) <= 1
          /\ \A a \in 1..PlanetCount : \A b \in 1..PlanetCount :
                a # b => Cardinality(RecordsOfPair(planet_positions[a].planet,
                                                   planet_positions[b].planet)) <= 1
          /\ 2 * Len(aspect_list) <= PlanetCount * (PlanetCount - 1)

\* Three planets or more, every pair of them in aspect: the list is as long
\* as it can be, one record for each pair.
C14_Witness ==
    /\ AspectsDone
    /\ PlanetCount >= 3
    /\ 2 * Len(aspect_list) = PlanetCount * (PlanetCount - 1)
    /\ \A a \in 1..PlanetCount : \A b \in 1..PlanetCount :
          a # b => Cardinality(RecordsOfPair(planet_positions[a].planet,
                                             planet_positions[b].planet)) = 1

====
